---- MODULE Spec2Model ----
(***************************************************************************)
(* Model of the Gandi DNS01 webhook solver (main.go).                      *)
(*                                                                         *)
(* The solver is a stateless adapter: the host calls Present or CleanUp,   *)
(* possibly from several goroutines at once.  Each call resolves the       *)
(* credentials, splits the FQDN, reads the TXT rrset from LiveDNS and then *)
(* issues one mutation.  A call is split into steps at the provider calls, *)
(* which are the only points where concurrent calls interact.              *)
(*                                                                         *)
(* Strings that the code takes apart (FQDN, zone) are sequences of         *)
(* one-character strings.  The LiveDNS service and the secret store are    *)
(* external; their answers are chosen nondeterministically.                *)
(***************************************************************************)
EXTENDS Integers, Sequences, FiniteSets, TLC

\* ---------------------------------------------------------------- bounds
\* longest FQDN / zone explored by the name-splitting specification
MaxLen == 4

\* -------------------------------------------------------------- constants
GandiMinTtl == 300

\* HTTP status codes the provider may answer an upsert with
Codes == {200, 500}

\* concurrent host goroutines calling into the solver
Procs == {1, 2}

\* challenge keys
Keys == {"k1", "k2"}

Dot == "."

\* characters of the names explored by the name-splitting specification
Alphabet == {"a", Dot}

\* zones and challenge FQDNs the host sends (dot-terminated)
Zones == {<<"e", Dot>>}

FQDNs == {<<"a", Dot, "e", Dot>>}

\* ch.Config: absent, not decodable, or a decodable PATSecretRef
Configs == {"nil", "malformed", "ok"}

\* answers of the secret store to Secrets(namespace).Get
SecretOutcomes == {"get_err", "no_key", "ok"}

\* ------------------------------------------------------- string helpers
\* strings.HasSuffix
HasSuffix(s, suffix) ==
    /\ Len(s) >= Len(suffix)
    /\ SubSeq(s, Len(s) - Len(suffix) + 1, Len(s)) = suffix

\* strings.TrimSuffix: s without the trailing suffix, or s unchanged
TrimSuffix(s, suffix) ==
    IF HasSuffix(s, suffix) THEN SubSeq(s, 1, Len(s) - Len(suffix)) ELSE s

\* variant: the separator between entry and zone is left on the entry
getDomainAndChallengeFQDN_keepDot(ch) ==
    LET entry  == TrimSuffix(ch.ResolvedFQDN, ch.ResolvedZone)
        domain == TrimSuffix(ch.ResolvedZone, <<Dot>>)
    IN  <<entry, domain>>

\* returns <<entry, domain>>
getDomainAndChallengeFQDN(ch) ==
    LET entry0 == TrimSuffix(ch.ResolvedFQDN, ch.ResolvedZone)
        entry  == TrimSuffix(entry0, <<Dot>>)
        domain == TrimSuffix(ch.ResolvedZone, <<Dot>>)
    IN  <<entry, domain>>

\* the (domain, entry) pair the provider calls of a request are keyed by
NameOf(ch) ==
    LET r == getDomainAndChallengeFQDN(ch) IN <<r[2], r[1]>>

\* ------------------------------------------------------------ data model
ChallengeRequests ==
    [ResolvedFQDN : FQDNs, ResolvedZone : Zones, Key : Keys, Config : Configs]

NoRequest ==
    [ResolvedFQDN |-> <<>>, ResolvedZone |-> <<>>, Key |-> "", Config |-> "nil"]

\* rrset names of the provider that the requests can address
Names == {NameOf(c) : c \in ChallengeRequests}

\* livedns.DomainRecord; the zero value stands for "no such rrset"
NoRecord == [RrsetName |-> <<>>, RrsetValues |-> <<>>, RrsetTTL |-> 0]

MkRecord(name, ttl, values) ==
    [RrsetName |-> name[2], RrsetValues |-> values, RrsetTTL |-> ttl]

\* TXT rrsets that may exist at a name before the solver is first called
InitialRecords(name) ==
    { NoRecord,
      MkRecord(name, 300, <<"k1">>),
      MkRecord(name, 3600, <<"k2", "k1">>) }

\* error values returned to the host
NoErr == [kind |-> "nil", code |-> 0]

Err(kind) == [kind |-> kind, code |-> 0]

CodeErr(code) == [kind |-> "code", code |-> code]

\* one external call issued by a solver call; code 0 stands for "no answer"
LogEntry(call, name, ok, code, ttl, values) ==
    [call |-> call, name |-> name, ok |-> ok, code |-> code,
     ttl |-> ttl, values |-> values, found |-> FALSE, stale |-> FALSE]

\* a read, and whether the solver took its answer for an existing record
ReadEntry(name, ok, found) ==
    [LogEntry("read", name, ok, 0, 0, <<>>) EXCEPT !.found = found]

\* an upsert, and whether the rrset had changed since the call's read
UpsertEntry(name, ok, code, ttl, values, stale) ==
    [LogEntry("upsert", name, ok, code, ttl, values) EXCEPT !.stale = stale]

NoName == <<>>

\* summary of the Present a process finished just before the current one
NoRep == [same |-> FALSE, ok |-> FALSE, clean |-> FALSE]

VARIABLES
    initState,     \* "new" | "ok" | "failed": outcome of Initialize
    client,        \* c.client: "nil" | "clientset"
    records,       \* provider: TXT rrset at each name
    pc,            \* position of each call
    op,            \* "none" | "Present" | "CleanUp"
    ch,            \* the ChallengeRequest of the call
    domainRecord,  \* result of the call's read
    err,           \* the error the call returned
    log,           \* external calls issued by the current call
    lastMut,       \* per name: process whose mutation last reached the provider
    rep,           \* summary of the previous call when this Present repeats it
    sch,           \* name-splitting specification: the input
    sres           \* name-splitting specification: the output

vars == <<initState, client, records, pc, op, ch, domainRecord, err, log,
          lastMut, rep, sch, sres>>

\* the name-splitting specification has not applied the function yet
NoSplit == <<"none">>

\* all strings over the alphabet of at most n characters
Strs(n) == UNION {[1..k -> Alphabet] : k \in 0..n}

\* ---------------------------------------------------------- solver logic
\* the record-found test of Present and CleanUp
Found(rec) == rec.RrsetName /= <<>> /\ Len(rec.RrsetValues) > 0

\* variant: the one-element array is sliced to nothing
recordVal_empty(c) == <<>>

\* the value list Present sends
recordVal(c) == <<c.Key>>

\* the lookup getGandiClient sends to the secret store
SecretGet(sec) == LogEntry("secret", NoName, sec = "ok", 0, 0, <<>>)

\* variant: no check for an absent payload, whose Raw field is then read
getGandiClient_noNilCheck(cfgJSON, sec) ==
    IF cfgJSON = "nil"
    THEN [err |-> Err("panic: nil pointer dereference"), calls |-> <<>>]
    ELSE IF cfgJSON = "malformed"
    THEN [err |-> Err("error decoding solver config"), calls |-> <<>>]
    ELSE IF sec = "get_err"
    THEN [err |-> Err("unable to get secret"), calls |-> <<SecretGet(sec)>>]
    ELSE IF sec = "no_key"
    THEN [err |-> Err("key not found in secret"), calls |-> <<SecretGet(sec)>>]
    ELSE [err |-> NoErr, calls |-> <<SecretGet(sec)>>]

\* getGandiClient for a config payload and a secret store answer:
\* the error it returns and the external calls it made
getGandiClient(cfgJSON, sec) ==
    IF cfgJSON = "nil"
    THEN [err |-> Err("no configuration provided"), calls |-> <<>>]
    ELSE IF cfgJSON = "malformed"
    THEN [err |-> Err("error decoding solver config"), calls |-> <<>>]
    ELSE IF sec = "get_err"
    THEN [err |-> Err("unable to get secret"), calls |-> <<SecretGet(sec)>>]
    ELSE IF sec = "no_key"
    THEN [err |-> Err("key not found in secret"), calls |-> <<SecretGet(sec)>>]
    ELSE [err |-> NoErr, calls |-> <<SecretGet(sec)>>]

\* variant: the error of the read is not checked
PresentAfterRead_unchecked(readErr) == "upsert"

\* where Present goes after its read
PresentAfterRead(readErr) == IF readErr THEN "done" ELSE "upsert"

\* variant: a failed upsert is sent again
PresentAfterUpsert_retry(e) == IF e /= NoErr THEN "upsert" ELSE "done"

\* where Present goes after its upsert: it returns, whatever the answer
PresentAfterUpsert(e) == "done"

\* variant: the delete is sent whether or not a record was found
CleanUpAfterRead_always(readErr, rec) == IF readErr THEN "done" ELSE "delete"

\* where CleanUp goes after its read
CleanUpAfterRead(readErr, rec) ==
    IF readErr THEN "done" ELSE IF Found(rec) THEN "delete" ELSE "done"

\* variant: an existing record is reported as a conflict
PresentResult_conflict(found, callErr, code) ==
    IF found
    THEN Err("TXT record already exists")
    ELSE IF callErr THEN Err("unable to create TXT record")
         ELSE IF code /= 200 THEN CodeErr(code)
         ELSE NoErr

\* variant: the status code is checked on the change branch only
PresentResult_createUnchecked(found, callErr, code) ==
    IF found
    THEN IF callErr THEN Err("unable to change TXT record")
         ELSE IF code /= 200 THEN CodeErr(code)
         ELSE NoErr
    ELSE IF callErr THEN Err("unable to create TXT record")
         ELSE NoErr

\* error Present returns after its upsert: callErr is the transport error
PresentResult(found, callErr, code) ==
    IF found
    THEN IF callErr THEN Err("unable to change TXT record")
         ELSE IF code /= 200 THEN CodeErr(code)
         ELSE NoErr
    ELSE IF callErr THEN Err("unable to create TXT record")
         ELSE IF code /= 200 THEN CodeErr(code)
         ELSE NoErr

\* variant: no ttl is passed when the record is created
PresentTtl_createDefault(found) == IF found THEN GandiMinTtl ELSE 0

\* ttl Present requests on the two branches
PresentTtl(found) == IF found THEN GandiMinTtl ELSE GandiMinTtl

\* ------------------------------------------------------------- provider
\* PUT of an rrset: replaces whatever is stored at the name
ProviderUpdate(recs, name, ttl, values) ==
    [recs EXCEPT ![name] = MkRecord(name, ttl, values)]

\* DELETE of an rrset: removes all values at the name
ProviderDelete(recs, name) ==
    [recs EXCEPT ![name] = NoRecord]

\* ----------------------------------------------------------------- Init
SolverInit ==
    /\ initState = "new"
    /\ client = "nil"
    /\ records \in {r \in [Names -> UNION {InitialRecords(n) : n \in Names}] :
                       \A n \in Names : r[n] \in InitialRecords(n)}
    /\ pc = [p \in Procs |-> "idle"]
    /\ op = [p \in Procs |-> "none"]
    /\ ch = [p \in Procs |-> NoRequest]
    /\ domainRecord = [p \in Procs |-> NoRecord]
    /\ err = [p \in Procs |-> NoErr]
    /\ log = [p \in Procs |-> <<>>]
    /\ lastMut = [n \in Names |-> 0]
    /\ rep = [p \in Procs |-> NoRep]

Init ==
    /\ SolverInit
    /\ sch = [ResolvedFQDN |-> <<>>, ResolvedZone |-> <<>>]
    /\ sres = NoSplit

\* -------------------------------------------------------------- actions
\* Initialize: build the secret store client, once, at host start-up
Initialize(ok) ==
    /\ initState = "new"
    /\ initState' = IF ok THEN "ok" ELSE "failed"
    /\ client' = IF ok THEN "clientset" ELSE client
    /\ UNCHANGED <<records, pc, op, ch, domainRecord, err, log, lastMut, rep,
                   sch, sres>>

\* did every external call of the log succeed
CleanLog(l) == \A i \in 1..Len(l) : l[i].ok

\* summary of the finished call of p, when the next call is a Present that
\* repeats it: did it succeed, and did all its external calls succeed
RepOf(p, o, c) ==
    IF pc[p] = "done" /\ o = "Present" /\ op[p] = o /\ ch[p] = c
    THEN [same |-> TRUE, ok |-> err[p] = NoErr, clean |-> CleanLog(log[p])]
    ELSE NoRep

\* first part of Present and CleanUp: getGandiClient and the name split.
\* The host dispatches challenges only once Initialize has stored c.client.
Call(p, o, c, sec) ==
    /\ client = "clientset"
    /\ pc[p] \in {"idle", "done"}
    /\ LET g == getGandiClient(c.Config, sec)
       IN  /\ log' = [log EXCEPT ![p] = g.calls]
           /\ err' = [err EXCEPT ![p] = g.err]
           /\ pc' = [pc EXCEPT ![p] = IF g.err = NoErr THEN "read" ELSE "done"]
    /\ rep' = [rep EXCEPT ![p] = RepOf(p, o, c)]
    /\ op' = [op EXCEPT ![p] = o]
    /\ ch' = [ch EXCEPT ![p] = c]
    /\ domainRecord' = [domainRecord EXCEPT ![p] = NoRecord]
    /\ UNCHANGED <<initState, client, records, lastMut, sch, sres>>

PresentCall(p) ==
    \E c \in ChallengeRequests, sec \in SecretOutcomes :
        /\ c.Config /= "ok" => sec = "ok"
        /\ Call(p, "Present", c, sec)

CleanUpCall(p) ==
    \E c \in ChallengeRequests, sec \in SecretOutcomes :
        /\ c.Config /= "ok" => sec = "ok"
        /\ Call(p, "CleanUp", c, sec)

\* Present: GetDomainRecordByNameAndType
PresentRead(p) ==
    /\ pc[p] = "read"
    /\ op[p] = "Present"
    /\ \E readErr \in BOOLEAN :
        LET name == NameOf(ch[p]) IN
        /\ log' = [log EXCEPT ![p] =
                     Append(@, ReadEntry(name, ~readErr,
                                         ~readErr /\ Found(records[name])))]
        /\ IF readErr
           THEN /\ err' = [err EXCEPT ![p] = Err("present: pre: unable to check TXT record")]
                /\ UNCHANGED domainRecord
           ELSE /\ domainRecord' = [domainRecord EXCEPT ![p] = records[name]]
                /\ UNCHANGED err
        /\ pc' = [pc EXCEPT ![p] = PresentAfterRead(readErr)]
    /\ UNCHANGED <<initState, client, records, op, ch, lastMut, rep, sch, sres>>

\* Present: UpdateDomainRecordByNameAndType and the check of its answer.
\* The read result is a local of the call and is gone when it returns.
\* An upsert answered 200 was applied; one that failed may or may not have been.
PresentUpsert(p) ==
    /\ pc[p] = "upsert"
    /\ op[p] = "Present"
    /\ \E callErr \in BOOLEAN, code \in Codes, applied \in BOOLEAN :
        LET name   == NameOf(ch[p])
            found  == Found(domainRecord[p])
            ttl    == PresentTtl(found)
            values == recordVal(ch[p])
            okCall == ~callErr /\ code = 200
        IN
        /\ callErr => code = 500
        /\ okCall => applied
        /\ log' = [log EXCEPT ![p] =
                     Append(@, UpsertEntry(name, okCall,
                                           IF callErr THEN 0 ELSE code, ttl, values,
                                           records[name] /= domainRecord[p]))]
        /\ records' = IF applied THEN ProviderUpdate(records, name, ttl, values)
                      ELSE records
        /\ lastMut' = IF applied THEN [lastMut EXCEPT ![name] = p] ELSE lastMut
        /\ err' = [err EXCEPT ![p] = PresentResult(found, callErr, code)]
        /\ pc' = [pc EXCEPT ![p] =
                    PresentAfterUpsert(PresentResult(found, callErr, code))]
    /\ domainRecord' = [domainRecord EXCEPT ![p] = NoRecord]
    /\ UNCHANGED <<initState, client, op, ch, rep, sch, sres>>

\* CleanUp: GetDomainRecordByNameAndType, and the return when nothing is found
CleanUpRead(p) ==
    /\ pc[p] = "read"
    /\ op[p] = "CleanUp"
    /\ \E readErr \in BOOLEAN :
        LET name == NameOf(ch[p]) IN
        /\ log' = [log EXCEPT ![p] =
                     Append(@, ReadEntry(name, ~readErr,
                                         ~readErr /\ Found(records[name])))]
        /\ IF readErr
           THEN /\ err' = [err EXCEPT ![p] = Err("cleanup: pre: unable to check TXT record")]
                /\ UNCHANGED domainRecord
           ELSE /\ domainRecord' = [domainRecord EXCEPT ![p] = records[name]]
                /\ UNCHANGED err
        /\ pc' = [pc EXCEPT ![p] = CleanUpAfterRead(readErr, records[name])]
    /\ UNCHANGED <<initState, client, records, op, ch, lastMut, rep, sch, sres>>

\* CleanUp: DeleteDomainRecord; the call returns and its locals are gone.
\* A failed delete may or may not have been applied.
CleanUpDelete(p) ==
    /\ pc[p] = "delete"
    /\ op[p] = "CleanUp"
    /\ \E callErr \in BOOLEAN, applied \in BOOLEAN :
        LET name == NameOf(ch[p]) IN
        /\ ~callErr => applied
        /\ log' = [log EXCEPT ![p] =
                     Append(@, LogEntry("delete", name, ~callErr, 0, 0, <<>>))]
        /\ records' = IF applied THEN ProviderDelete(records, name) ELSE records
        /\ lastMut' = IF applied THEN [lastMut EXCEPT ![name] = p] ELSE lastMut
        /\ err' = [err EXCEPT ![p] =
                     IF callErr THEN Err("unable to remove TXT record") ELSE NoErr]
        /\ pc' = [pc EXCEPT ![p] = "done"]
    /\ domainRecord' = [domainRecord EXCEPT ![p] = NoRecord]
    /\ UNCHANGED <<initState, client, op, ch, rep, sch, sres>>

Next ==
    \/ \E ok \in BOOLEAN : Initialize(ok)
    \/ \E p \in Procs : PresentCall(p)
    \/ \E p \in Procs : CleanUpCall(p)
    \/ \E p \in Procs : PresentRead(p)
    \/ \E p \in Procs : PresentUpsert(p)
    \/ \E p \in Procs : CleanUpRead(p)
    \/ \E p \in Procs : CleanUpDelete(p)

Spec == Init /\ [][Next]_vars

\* ------------------------------------------- name-splitting specification
\* getDomainAndChallengeFQDN applied to every FQDN and zone of bounded length
SplitInit ==
    /\ SolverInit
    /\ sch \in [ResolvedFQDN : Strs(MaxLen), ResolvedZone : Strs(MaxLen)]
    /\ sres = NoSplit

Split ==
    /\ sres = NoSplit
    /\ sres' = getDomainAndChallengeFQDN(sch)
    /\ UNCHANGED <<initState, client, records, pc, op, ch, domainRecord, err,
                   log, lastMut, rep, sch>>

SplitNext == Split

SplitSpec == SplitInit /\ [][SplitNext]_vars

\* ------------------------------------------------------------ properties
Range(q) == {q[i] : i \in 1..Len(q)}

\* positions of the calls of one kind in a log
CallsOf(l, kind) == {i \in 1..Len(l) : l[i].call = kind}

MutationsOf(l) == CallsOf(l, "upsert") \cup CallsOf(l, "delete")

Returned(p) == pc[p] = "done"

Succeeded(p) == Returned(p) /\ err[p] = NoErr

\* the rrset at the name holds exactly the one value
HoldsExactly(name, key) ==
    /\ records[name].RrsetName = name[2]
    /\ records[name].RrsetValues = <<key>>

CleanUpKeepsOtherValues ==
    [][\A p \in Procs :
          (/\ op[p] = "CleanUp"
           /\ pc[p] \in {"read", "delete"}
           /\ pc'[p] = "done"
           /\ err'[p] = NoErr)
          => \A v \in Range(records[NameOf(ch[p])].RrsetValues) :
                v /= ch[p].Key
                => v \in Range(records'[NameOf(ch[p])].RrsetValues)]_vars

\* C3: when the read of a CleanUp succeeds and returns no record (empty name
\* or empty value list), the call returns success at once, has issued no
\* delete, and the provider's records are as they were.
CleanUpNoOp ==
    [][\A p \in Procs :
          (/\ op[p] = "CleanUp"
           /\ pc[p] = "read"
           /\ Len(log'[p]) = Len(log[p]) + 1
           /\ log'[p][Len(log'[p])].ok
           /\ \/ records[NameOf(ch[p])].RrsetName = <<>>
              \/ records[NameOf(ch[p])].RrsetValues = <<>>)
          => /\ pc'[p] = "done"
             /\ err'[p] = NoErr
             /\ CallsOf(log'[p], "delete") = {}
             /\ records' = records]_vars

\* a CleanUp that found nothing has returned success
CleanUpNoOpWitness ==
    \E p \in Procs :
        /\ Succeeded(p)
        /\ op[p] = "CleanUp"
        /\ Len(log[p]) = 2
        /\ log[p][2].call = "read" /\ log[p][2].ok /\ ~log[p][2].found
        /\ records[NameOf(ch[p])] = NoRecord

\* C4: every upsert or delete in a call's log comes after a successful read
\* of the same name in the same call, and what is issued after a successful
\* read is a function of the operation and of what that read returned:
\* Present always upserts, CleanUp deletes exactly when a record was found.
ReadBeforeMutation ==
    \A p \in Procs :
        /\ \A i \in MutationsOf(log[p]) :
              \E j \in CallsOf(log[p], "read") :
                  j < i /\ log[p][j].ok /\ log[p][j].name = log[p][i].name
        /\ \A j \in CallsOf(log[p], "read") :
              (log[p][j].ok /\ Returned(p))
              => /\ op[p] = "Present" =>
                      /\ CallsOf(log[p], "upsert") /= {}
                      /\ CallsOf(log[p], "delete") = {}
                 /\ op[p] = "CleanUp" =>
                      /\ CallsOf(log[p], "upsert") = {}
                      /\ (CallsOf(log[p], "delete") /= {}) <=> log[p][j].found

\* one call has upserted and another has deleted, each after its read
ReadBeforeMutationWitness ==
    \E p, q \in Procs :
        /\ Returned(p) /\ op[p] = "Present"
        /\ CallsOf(log[p], "upsert") /= {}
        /\ Returned(q) /\ op[q] = "CleanUp"
        /\ CallsOf(log[q], "delete") /= {}

\* C5: every upsert Present sends carries a ttl of at least 300 and the
\* value list [ch.Key].
UpsertArgs ==
    \A p \in Procs :
        \A i \in CallsOf(log[p], "upsert") :
            /\ log[p][i].ttl >= 300
            /\ log[p][i].values = <<ch[p].Key>>

\* upserts on the record-found and on the record-not-found branch
UpsertArgsWitness ==
    \E p, q \in Procs :
        /\ \E i \in CallsOf(log[p], "upsert") : log[p][i - 1].found
        /\ \E i \in CallsOf(log[q], "upsert") :
              log[q][i - 1].ok /\ ~log[q][i - 1].found

\* C6: a Present or CleanUp with an absent configuration payload has
\* returned the configuration error, without a panic and without any lookup
\* in the secret store or call to the provider, and the step that made the
\* call left the provider's records as they were.
NilConfigRejected ==
    /\ [](\A p \in Procs :
            (op[p] /= "none" /\ ch[p].Config = "nil")
            => /\ Returned(p)
               /\ err[p] = Err("no configuration provided")
               /\ log[p] = <<>>)
    /\ [][\A p \in Procs :
            (/\ pc[p] \in {"idle", "done"}
             /\ ch'[p].Config = "nil"
             /\ op'[p] /= "none"
             /\ <<op[p], ch[p], rep[p]>> /= <<op'[p], ch'[p], rep'[p]>>)
            => records' = records]_vars

\* a Present and a CleanUp with an absent payload have been rejected
NilConfigWitness ==
    \E p, q \in Procs :
        /\ op[p] = "Present" /\ ch[p].Config = "nil" /\ Returned(p)
        /\ err[p].kind = "no configuration provided"
        /\ op[q] = "CleanUp" /\ ch[q].Config = "nil" /\ Returned(q)
        /\ err[q].kind = "no configuration provided"

\* C7: a Present whose upsert was answered with a code other than 200 has
\* returned an error carrying that code, and a Present that returned success
\* had its upsert answered with 200.
NonOkCodeSurfaces ==
    \A p \in Procs :
        (Returned(p) /\ op[p] = "Present")
        => /\ \A i \in CallsOf(log[p], "upsert") :
                 log[p][i].code \notin {0, 200} => err[p] = CodeErr(log[p][i].code)
           /\ err[p] = NoErr =>
                 \E i \in CallsOf(log[p], "upsert") : log[p][i].code = 200

\* the code 500 was returned on both branches
NonOkCodeWitness ==
    \E p, q \in Procs :
        /\ Returned(p) /\ op[p] = "Present" /\ err[p] = CodeErr(500)
        /\ \E i \in CallsOf(log[p], "read") : log[p][i].found
        /\ Returned(q) /\ op[q] = "Present" /\ err[q] = CodeErr(500)
        /\ \E i \in CallsOf(log[q], "read") : log[q][i].ok /\ ~log[q][i].found

\* the example of the specification, one character per element
ExampleZone == <<"e", "x", "a", "m", "p", "l", "e", Dot, "c", "o", "m", Dot>>

ExampleEntry ==
    <<"_", "a", "c", "m", "e", "-", "c", "h", "a", "l", "l", "e", "n", "g", "e">>

\* C8: for an FQDN f = prefix.z and a zone z that ends with the separator,
\* the split returns the prefix without one trailing separator as the entry
\* and z without its trailing separator as the domain.
SplitCorrect ==
    /\ sres /= NoSplit =>
         \A prefix \in Strs(MaxLen) :
            LET f == sch.ResolvedFQDN
                z == sch.ResolvedZone
            IN  (/\ f = prefix \o z
                 /\ z /= <<>>
                 /\ z[Len(z)] = Dot)
                => /\ sres[2] \o <<Dot>> = z
                   /\ IF prefix /= <<>> /\ prefix[Len(prefix)] = Dot
                      THEN sres[1] \o <<Dot>> = prefix
                      ELSE sres[1] = prefix
    /\ sres /= NoSplit =>
         getDomainAndChallengeFQDN(
             [ResolvedFQDN |-> ExampleEntry \o <<Dot>> \o ExampleZone,
              ResolvedZone |-> ExampleZone])
         = <<ExampleEntry, SubSeq(ExampleZone, 1, Len(ExampleZone) - 1)>>

\* "a.a." under the zone "a." has been split into "a" and "a"
SplitWitness ==
    /\ sch.ResolvedFQDN = <<"a", Dot, "a", Dot>>
    /\ sch.ResolvedZone = <<"a", Dot>>
    /\ sres = << <<"a">>, <<"a">> >>

\* C9: when two Present calls for the same name with different keys have
\* both succeeded, the rrset holds exactly the key of the one whose upsert
\* reached the provider last, and not the key of the other.
LastWriteWins ==
    \A p, q \in Procs :
        (/\ p /= q
         /\ Succeeded(p) /\ op[p] = "Present"
         /\ Succeeded(q) /\ op[q] = "Present"
         /\ NameOf(ch[p]) = NameOf(ch[q])
         /\ ch[p].Key /= ch[q].Key
         /\ lastMut[NameOf(ch[p])] = p)
        => /\ HoldsExactly(NameOf(ch[p]), ch[p].Key)
           /\ ch[q].Key \notin Range(records[NameOf(ch[p])].RrsetValues)

\* two Presents raced: the upsert of p landed on an rrset that had changed
\* since p read it, and both calls succeeded
LastWriteWinsWitness ==
    \E p, q \in Procs :
        /\ p /= q
        /\ Succeeded(p) /\ op[p] = "Present"
        /\ Succeeded(q) /\ op[q] = "Present"
        /\ ch[p].Key /= ch[q].Key
        /\ lastMut[NameOf(ch[p])] = p
        /\ \E i \in CallsOf(log[p], "upsert") : log[p][i].stale
        /\ \E i \in CallsOf(log[p], "read") : ~log[p][i].found
        /\ \E i \in CallsOf(log[q], "read") : log[q][i].ok /\ ~log[q][i].found
        /\ HoldsExactly(NameOf(ch[p]), ch[p].Key)

\* C10: a call issues at most one secret lookup, one read and one mutation;
\* a successful Present issued exactly a lookup, a read and an upsert, in
\* that order; a call whose credential resolution or read failed returned
\* an error and issued no mutation.
NoRetry ==
    \A p \in Procs :
        /\ Cardinality(CallsOf(log[p], "secret")) <= 1
        /\ Cardinality(CallsOf(log[p], "read")) <= 1
        /\ Cardinality(CallsOf(log[p], "upsert")) <= 1
        /\ Cardinality(CallsOf(log[p], "delete")) <= 1
        /\ op[p] = "Present" => CallsOf(log[p], "delete") = {}
        /\ op[p] = "CleanUp" => CallsOf(log[p], "upsert") = {}
        /\ (Succeeded(p) /\ op[p] = "Present")
           => /\ Len(log[p]) = 3
              /\ log[p][1].call = "secret"
              /\ log[p][2].call = "read"
              /\ log[p][3].call = "upsert"
        /\ (/\ op[p] /= "none"
            /\ \/ ch[p].Config /= "ok"
               \/ \E i \in CallsOf(log[p], "secret") \cup CallsOf(log[p], "read") :
                     ~log[p][i].ok)
           => /\ Returned(p)
              /\ err[p] /= NoErr
              /\ MutationsOf(log[p]) = {}

\* a Present whose upsert failed has returned, and a call whose read failed
NoRetryWitness ==
    \E p, q \in Procs :
        /\ Returned(p) /\ op[p] = "Present" /\ err[p] /= NoErr
        /\ \E i \in CallsOf(log[p], "upsert") : ~log[p][i].ok
        /\ Returned(q)
        /\ \E i \in CallsOf(log[q], "read") : ~log[q][i].ok

====
